---- MODULE Spec2Model ----
(***************************************************************************)
(* Model of vema.py: the Inventory (product catalog with stock) and the    *)
(* VendingMachineModel (balance in cent, greedy change in coins).          *)
(*                                                                         *)
(* Representation.                                                         *)
(*  - A float literal of the source (a price, an inserted amount) is kept  *)
(*    as the integer number of 1/10000 EUR it denotes: 4.50 is 45000,      *)
(*    0.2498 is 2498.  All literals of the model are within 10 EUR.        *)
(*  - Python's None is the empty set and a value v that is not None is the *)
(*    singleton {v} (an optional value).                                   *)
(*  - A message is a record naming its kind and the values formatted into  *)
(*    it; the colour escape codes of msg_error / msg_attn are left out.    *)
(*  - A call that ends with an exception records Raised(e) as its result.  *)
(*  - A call records its arguments; an argument of insert_money that is no *)
(*    number is recorded together with its type.                           *)
(*                                                                         *)
(* Specifications.                                                         *)
(*    Spec        the machine and its inventory, any calls                 *)
(*    SpecCoins   the static amount_to_coins, any amount and coin set      *)
(*    SpecCents   the machine fed amounts that lose a cent in conversion   *)
(*    SpecAudit   the machine from balance 0, with a ledger of the money   *)
(*                and the position in the end-to-end scenario              *)
(*    SpecShared  two inventories built side by side                       *)
(***************************************************************************)
EXTENDS Integers, Sequences, FiniteSets, TLC

(***************************************************************************)
(* Bounds of the model.                                                    *)
(***************************************************************************)
MaxBalance == 500     \* insert_money is not taken beyond this balance (cent)
MaxAmount  == 130     \* largest amount handed to amount_to_coins directly
MaxCredited == 1000   \* the audited run stops inserting beyond this total (cent)
NegAmount  == 12      \* amounts down to -NegAmount are handed to it as well

None == {}
Some(v) == {v}
TheValue(o) == CHOOSE v \in o : TRUE

(***************************************************************************)
(* int(x * 100) for a float x >= 0 given as its decimal literal n/10000.   *)
(* The double nearest to the literal, times 100 in double arithmetic, is   *)
(* for the literals of LossyLits just below the whole number of cent, and  *)
(* int() cuts it to one cent less: int(0.29 * 100) = 28.  For every other  *)
(* literal from 0 to 10 EUR the result is the truncation n \div 100.       *)
(***************************************************************************)
LossyLits ==
  { 2900, 5700, 5800, 11300, 11400, 11500, 11600, 20100, 20300, 20500,
    20700, 22600, 22800, 23000, 23200, 25100, 25300, 25500, 40200, 40600,
    41000, 41400, 42700, 43100, 43500, 43900, 45200, 45600, 46000, 46400,
    47700, 48100, 48500, 48900, 50200, 50600, 51000, 80300, 80400, 81200,
    82000, 82800, 82900, 83700, 84500, 85300, 85400, 86200, 87000, 87800,
    87900, 88700, 89500, 90300, 90400, 91200, 92000, 92800, 92900, 93700,
    94500, 95300, 95400, 96200, 97000, 97800, 97900, 98700, 99500 }

IntTimes100(n) ==
  IF n \in LossyLits THEN (n \div 100) - 1 ELSE n \div 100

(***************************************************************************)
(* Catalogs (product lists) an Inventory is constructed from.              *)
(***************************************************************************)
TestDatabase ==
  << [id |-> 1, name |-> "Pinot Noir",       price |-> 45000, stock |-> 1],
     [id |-> 2, name |-> "Red Bull + Vodka", price |-> 35000, stock |-> 2],
     [id |-> 3, name |-> "Soy Milk",         price |-> 10000, stock |-> 0] >>

SnackDatabase ==
  << [id |-> 1, name |-> "Water", price |-> 5000, stock |-> 2],
     [id |-> 6, name |-> "Gum",   price |-> 2900, stock |-> 1] >>

\* the catalog of the end-to-end scenario: one product, one unit
ScenarioDatabase ==
  << [id |-> 1, name |-> "Pinot Noir", price |-> 45000, stock |-> 1] >>

ProductLists == {TestDatabase, SnackDatabase}

DEFAULT_COINS == {5, 10, 20, 50, 100}

(***************************************************************************)
(* Inputs of the operations.                                               *)
(***************************************************************************)
InitialBalances == {-5, 0, 50}            \* initial_balance, in cent
InsertAmounts   == {-20000, 0, 50, 2498, 47500, 50000}  \* amount_eur
OfferedAmounts  == {-200, 28, 400, 500}   \* amount_ct of retrieve_product
Ids             == {1, 2, 3, 4, 6}        \* 4 is in no catalog
CoinUniverse    == {1, 3, 4, 5, 10, 20, 50, 100}
CoinSets        == SUBSET CoinUniverse
Amounts         == (0 - NegAmount)..MaxAmount

VARIABLES
  products,   \* Inventory._products: id -> product record
  balance,    \* VendingMachineModel._balance
  coins,      \* VendingMachineModel._coins
  op,         \* the operation called last
  arg,        \* its arguments
  result,     \* what it returned, or the exception it raised
  call,       \* the last direct call of the static amount_to_coins
  keys,       \* the key order of the dict Inventory._products
  step,       \* how far the run so far has followed the end-to-end scenario
  ledger,     \* the money credited, paid and cleared in the run so far
  heap,       \* product dicts by address, for inventories built side by side
  invs        \* those inventories: for each, id -> address of its product

vars == <<products, balance, coins, op, arg, result, call,
          keys, step, ledger, heap, invs>>

\* what only some specifications follow: left alone by the others
aux == <<step, ledger, heap, invs>>

(***************************************************************************)
(* sorted(coin_set, reverse=True)                                          *)
(***************************************************************************)
RECURSIVE SortedReverse(_)
SortedReverse(S) ==
  IF S = {} THEN << >>
  ELSE LET m == CHOOSE x \in S : \A y \in S : y <= x
       IN  <<m>> \o SortedReverse(S \ {m})

Range(f) == { f[i] : i \in DOMAIN f }

\* [c] * k : k copies of c, the empty list when k <= 0
Repeat(c, k) == [j \in 1..k |-> c]

(***************************************************************************)
(* Inventory                                                               *)
(***************************************************************************)
\* {p["id"]: p for p in pl} : a later entry of the list replaces an earlier
\* one with the same id
InventoryInit(pl) ==
  [i \in { pl[k].id : k \in DOMAIN pl } |->
     LET last == CHOOSE k \in DOMAIN pl :
                   /\ pl[k].id = i
                   /\ \A j \in DOMAIN pl : pl[j].id = i => j <= k
     IN  pl[last]]

\* the keys of that dict, in the order of their first insertion
RECURSIVE KeyOrder(_)
KeyOrder(pl) ==
  IF pl = << >> THEN << >>
  ELSE LET front == KeyOrder(SubSeq(pl, 1, Len(pl) - 1))
           id    == pl[Len(pl)].id
       IN  IF id \in Range(front) THEN front ELSE Append(front, id)

\* list_products: the column names and the rows handed to tabulate, in key
\* order (the text layout of the table is not modelled)
list_products(prods, order) ==
  [cols |-> <<"id", "name", "price", "stock">>,
   rows |-> [k \in DOMAIN order |-> prods[order[k]]]]

MsgUnknown(id)      == [kind |-> "No product with id", id |-> id]
MsgSoldOut(id, nm)  == [kind |-> "is sold out", id |-> id, name |-> nm]
MsgFunds            == [kind |-> "Insufficient funds"]
MsgRetrieved(nm, p) == [kind |-> "You retrieved", name |-> nm, price |-> p]

\* retrieve_product with the funds checked before the stock
retrieve_product_FundsFirst(prods, id, amount_ct) ==
  IF id \notin DOMAIN prods
    THEN [ret |-> <<None, MsgUnknown(id)>>, prods |-> prods]
  ELSE LET prod     == prods[id]
           price_ct == IntTimes100(prod.price)
       IN  IF price_ct > amount_ct
             THEN [ret |-> <<None, MsgFunds>>, prods |-> prods]
           ELSE IF prod.stock = 0
             THEN [ret |-> <<None, MsgSoldOut(id, prod.name)>>, prods |-> prods]
           ELSE [ret   |-> <<Some(price_ct), MsgRetrieved(prod.name, prod.price)>>,
                 prods |-> [prods EXCEPT ![id].stock = @ - 1]]

\* retrieve_product taking the unit off the stock before it checks the funds
retrieve_product_EarlyDecrement(prods, id, amount_ct) ==
  IF id \notin DOMAIN prods
    THEN [ret |-> <<None, MsgUnknown(id)>>, prods |-> prods]
  ELSE LET prod  == prods[id]
           taken == [prods EXCEPT ![id].stock = @ - 1]
       IN  IF prod.stock = 0
             THEN [ret |-> <<None, MsgSoldOut(id, prod.name)>>, prods |-> prods]
           ELSE LET price_ct == IntTimes100(prod.price)
                IN  IF price_ct > amount_ct
                      THEN [ret |-> <<None, MsgFunds>>, prods |-> taken]
                    ELSE [ret   |-> <<Some(price_ct),
                                      MsgRetrieved(prod.name, prod.price)>>,
                          prods |-> taken]

\* retrieve_product without the sold-out check
retrieve_product_NoSoldOut(prods, id, amount_ct) ==
  IF id \notin DOMAIN prods
    THEN [ret |-> <<None, MsgUnknown(id)>>, prods |-> prods]
  ELSE LET prod     == prods[id]
           price_ct == IntTimes100(prod.price)
       IN  IF price_ct > amount_ct
             THEN [ret |-> <<None, MsgFunds>>, prods |-> prods]
           ELSE [ret   |-> <<Some(price_ct), MsgRetrieved(prod.name, prod.price)>>,
                 prods |-> [prods EXCEPT ![id].stock = @ - 1]]

\* retrieve_product: the pair returned and the products after the call
retrieve_product(prods, id, amount_ct) ==
  IF id \notin DOMAIN prods
    THEN [ret |-> <<None, MsgUnknown(id)>>, prods |-> prods]
  ELSE LET prod == prods[id]
       IN  IF prod.stock = 0
             THEN [ret |-> <<None, MsgSoldOut(id, prod.name)>>, prods |-> prods]
           ELSE LET price_ct == IntTimes100(prod.price)
                IN  IF price_ct > amount_ct
                      THEN [ret |-> <<None, MsgFunds>>, prods |-> prods]
                    ELSE [ret   |-> <<Some(price_ct),
                                      MsgRetrieved(prod.name, prod.price)>>,
                          prods |-> [prods EXCEPT ![id].stock = @ - 1]]

(***************************************************************************)
(* VendingMachineModel.amount_to_coins                                     *)
(***************************************************************************)
\* the loop leaving out the last (smallest) coin
RECURSIVE CoinLoop_SkipLast(_, _, _, _)
CoinLoop_SkipLast(cs, i, rest, res) ==
  IF i >= Len(cs) THEN [rest |-> rest, result |-> res]
  ELSE CoinLoop_SkipLast(cs, i + 1, rest % cs[i],
                         res \o Repeat(cs[i], rest \div cs[i]))

\* the for loop over the sorted coins, from position i on
RECURSIVE CoinLoop(_, _, _, _)
CoinLoop(cs, i, rest, res) ==
  IF i > Len(cs) THEN [rest |-> rest, result |-> res]
  ELSE CoinLoop(cs, i + 1, rest % cs[i], res \o Repeat(cs[i], rest \div cs[i]))

\* f"{int(c/100)}EUR" if c >= 100 else f"{c}ct" : the number and the unit
PrettyCoin(c) == IF c >= 100 THEN <<c \div 100, "EUR">> ELSE <<c, "ct">>

\* sorted(coin_set) : ascending
RECURSIVE SortedAscending(_)
SortedAscending(S) ==
  IF S = {} THEN << >>
  ELSE LET m == CHOOSE x \in S : \A y \in S : x <= y
       IN  <<m>> \o SortedAscending(S \ {m})

\* amount_to_coins going through the coins smallest first
amount_to_coins_Ascending(amount_ct, coin_set, prettify) ==
  LET cs  == SortedAscending(coin_set)
      fin == CoinLoop(cs, 1, amount_ct, << >>)
  IN  IF fin.rest # 0 THEN None
      ELSE IF prettify
        THEN Some([k \in DOMAIN fin.result |-> PrettyCoin(fin.result[k])])
      ELSE Some(fin.result)

\* amount_to_coins taking an empty list of coins for a failure
amount_to_coins_EmptyIsNone(amount_ct, coin_set, prettify) ==
  LET cs  == SortedReverse(coin_set)
      fin == CoinLoop(cs, 1, amount_ct, << >>)
  IN  IF fin.rest # 0 \/ fin.result = << >> THEN None
      ELSE IF prettify
        THEN Some([k \in DOMAIN fin.result |-> PrettyCoin(fin.result[k])])
      ELSE Some(fin.result)

amount_to_coins(amount_ct, coin_set, prettify) ==
  LET cs  == SortedReverse(coin_set)
      fin == CoinLoop(cs, 1, amount_ct, << >>)
  IN  IF fin.rest # 0 THEN None
      ELSE IF prettify
        THEN Some([k \in DOMAIN fin.result |-> PrettyCoin(fin.result[k])])
      ELSE Some(fin.result)

\* VendingMachineModel._amount_to_coins
amount_to_coins_self(amount_ct, prettify) ==
  amount_to_coins(amount_ct, Range(coins), prettify)

(***************************************************************************)
(* Construction: Inventory(product_list) and                               *)
(* VendingMachineModel(initial_balance, inventory)                         *)
(***************************************************************************)
NoCall == [amount_ct |-> 0, coin_set |-> {}, prettify |-> FALSE,
           made |-> FALSE, ret |-> None]

NoLedger == [credited |-> 0, paid |-> 0, cleared |-> 0]

\* nothing followed yet
AuxInit ==
  /\ step = 0
  /\ ledger = NoLedger
  /\ heap = << >>
  /\ invs = << >>

Init ==
  /\ \E pl \in ProductLists :
       /\ products = InventoryInit(pl)
       /\ keys = KeyOrder(pl)
  /\ AuxInit
  /\ balance \in InitialBalances
  /\ coins = SortedReverse(DEFAULT_COINS)
  /\ op = "init"
  /\ arg = << >>
  /\ result = None
  /\ call = NoCall

(***************************************************************************)
(* insert_money: self._balance += int(max(0, amount_eur * 100))            *)
(***************************************************************************)
\* int(amount_eur * 100) without the max: a negative amount is taken off
InsertedCents_NoMax(amount_eur) ==
  IF amount_eur < 0 THEN 0 - IntTimes100(0 - amount_eur)
  ELSE IntTimes100(amount_eur)

InsertedCents(amount_eur) ==
  IF amount_eur < 0 THEN 0 ELSE IntTimes100(amount_eur)

InsertMoney(amount_eur) ==
  /\ balance + InsertedCents(amount_eur) <= MaxBalance
  /\ balance' = balance + InsertedCents(amount_eur)
  /\ op' = "insert_money"
  /\ arg' = <<amount_eur>>
  /\ result' = balance' * 100      \* balance / 100 EUR, as a literal
  /\ UNCHANGED <<products, coins, call>>

\* An exception leaving the call, in place of a returned value
Raised(e) == [raised |-> e]

\* insert_money with an argument that is no number: for a str x, x * 100 is a
\* str and max(0, str) raises TypeError before the balance is assigned.  The
\* argument is recorded with its type.
NonNumeric == {"abc"}

InsertMoneyNonNumeric(x) ==
  /\ op' = "insert_money"
  /\ arg' = <<x, "str">>
  /\ result' = Raised("TypeError")
  /\ UNCHANGED <<products, balance, coins, call>>

(***************************************************************************)
(* return_coins                                                            *)
(***************************************************************************)
\* return_coins clearing the balance only when the change could be given
ReturnCoins_KeepOnFailure(prettify) ==
  /\ result' = amount_to_coins_self(balance, prettify)
  /\ balance' = IF result' = None THEN balance ELSE 0
  /\ op' = "return_coins"
  /\ arg' = <<prettify>>
  /\ UNCHANGED <<products, coins, call>>

ReturnCoins(prettify) ==
  /\ result' = amount_to_coins_self(balance, prettify)
  /\ balance' = 0
  /\ op' = "return_coins"
  /\ arg' = <<prettify>>
  /\ UNCHANGED <<products, coins, call>>

(***************************************************************************)
(* buy_product                                                             *)
(***************************************************************************)
\* buy_product that takes the product and leaves the balance
BuyProduct_NoDeduct(id) ==
  LET r == retrieve_product(products, id, balance)
  IN  /\ products' = r.prods
      /\ balance' = balance
      /\ result' = r.ret
      /\ op' = "buy_product"
      /\ arg' = <<id>>
      /\ UNCHANGED <<coins, call>>

BuyProduct(id) ==
  LET r == retrieve_product(products, id, balance)
      amount_paid_ct == r.ret[1]
  IN  /\ products' = r.prods
      /\ balance' = IF amount_paid_ct # None
                      THEN balance - TheValue(amount_paid_ct)
                      ELSE balance
      /\ result' = r.ret
      /\ op' = "buy_product"
      /\ arg' = <<id>>
      /\ UNCHANGED <<coins, call>>

(***************************************************************************)
(* Inventory.retrieve_product called on the inventory itself               *)
(***************************************************************************)
Retrieve(id, amount_ct) ==
  LET r == retrieve_product(products, id, amount_ct)
  IN  /\ products' = r.prods
      /\ result' = r.ret
      /\ op' = "retrieve_product"
      /\ arg' = <<id, amount_ct>>
      /\ UNCHANGED <<balance, coins, call>>

(***************************************************************************)
(* list_products, of the machine or of its inventory                       *)
(***************************************************************************)
ListProducts ==
  /\ op' = "list_products"
  /\ arg' = << >>
  /\ result' = list_products(products, keys)
  /\ UNCHANGED <<products, balance, coins, call>>

Next ==
  \/ \E a \in InsertAmounts : InsertMoney(a) /\ UNCHANGED <<keys, aux>>
  \/ \E x \in NonNumeric : InsertMoneyNonNumeric(x) /\ UNCHANGED <<keys, aux>>
  \/ \E p \in BOOLEAN : ReturnCoins(p) /\ UNCHANGED <<keys, aux>>
  \/ \E id \in Ids : BuyProduct(id) /\ UNCHANGED <<keys, aux>>
  \/ \E id \in Ids, a \in OfferedAmounts :
       Retrieve(id, a) /\ UNCHANGED <<keys, aux>>
  \/ ListProducts /\ UNCHANGED <<keys, aux>>

Spec == Init /\ [][Next]_vars

(***************************************************************************)
(* The static amount_to_coins, called once with any amount and coin set:   *)
(* the arguments are drawn at the start and the call records what it       *)
(* returned.  The machine is left as constructed.                          *)
(***************************************************************************)
InitCoins ==
  /\ products = InventoryInit(TestDatabase)
  /\ keys = KeyOrder(TestDatabase)
  /\ AuxInit
  /\ balance = 0
  /\ coins = SortedReverse(DEFAULT_COINS)
  /\ op = "init"
  /\ arg = << >>
  /\ result = None
  /\ \E a \in Amounts, S \in CoinSets, p \in BOOLEAN :
       call = [amount_ct |-> a, coin_set |-> S, prettify |-> p,
               made |-> FALSE, ret |-> None]

AmountToCoins ==
  /\ ~call.made
  /\ call' = [call EXCEPT
       !.made = TRUE,
       !.ret  = amount_to_coins(call.amount_ct, call.coin_set, call.prettify)]
  /\ UNCHANGED <<products, balance, coins, op, arg, result>>

NextCoins == AmountToCoins /\ UNCHANGED <<keys, aux>>

SpecCoins == InitCoins /\ [][NextCoins]_vars

(***************************************************************************)
(* Helpers of the properties.                                              *)
(***************************************************************************)
\* the sum of the elements of q that are in S: each value times its count
RECURSIVE SumOf(_, _)
SumOf(q, S) ==
  IF S = {} THEN 0
  ELSE LET c == CHOOSE x \in S : TRUE
       IN  c * Cardinality({ i \in DOMAIN q : q[i] = c }) + SumOf(q, S \ {c})

SumSeq(q) == SumOf(q, Range(q))

KindUnknown == "No product with id"
KindSoldOut == "is sold out"
KindFunds   == "Insufficient funds"

\* a step that is a call of retrieve_product, on the inventory or by buy_product
IsRetrieveStep == op' \in {"retrieve_product", "buy_product"}

\* fewest coins of S summing to a, for a = 0..n: entry a + 1 is None when no
\* multiset of S sums to a.  Computed bottom-up over all amounts, not greedily.
RECURSIVE FewestTable(_, _, _)
FewestTable(S, n, tbl) ==
  IF Len(tbl) > n THEN tbl
  ELSE LET a    == Len(tbl)
           opts == { TheValue(tbl[a - c + 1]) + 1 :
                       c \in { d \in S : d <= a /\ tbl[a - d + 1] # None } }
       IN  FewestTable(S, n,
             Append(tbl, IF opts = {} THEN None
                         ELSE Some(CHOOSE m \in opts : \A k \in opts : m <= k)))

FewestDefault == FewestTable(DEFAULT_COINS, MaxAmount, << Some(0) >>)

(***************************************************************************)
(* C1: retrieve_product reports errors with the precedence unknown id >    *)
(* sold out > insufficient funds: an id outside the catalog gives "No      *)
(* product with id"; a known id with stock 0 gives "is sold out" whatever  *)
(* amount is offered; "Insufficient funds" is returned only for a known id *)
(* with stock > 0.                                                         *)
(***************************************************************************)
C1_ErrorPrecedence ==
  [][ IsRetrieveStep =>
        LET id == arg'[1]
        IN  /\ id \notin DOMAIN products =>
                 result' = <<None, MsgUnknown(id)>>
            /\ (id \in DOMAIN products /\ products[id].stock = 0) =>
                 result' = <<None, MsgSoldOut(id, products[id].name)>>
            /\ result'[2].kind = KindFunds =>
                 (id \in DOMAIN products /\ products[id].stock > 0)
    ]_vars

\* a sold-out product was asked for with less than its price, and the answer
\* was "sold out"
C1_Witness ==
  /\ op = "retrieve_product"
  /\ arg[1] \in DOMAIN products
  /\ products[arg[1]].stock = 0
  /\ arg[2] < IntTimes100(products[arg[1]].price)
  /\ result[2].kind = KindSoldOut

(***************************************************************************)
(* C2: a successful buy_product(id) is one step that takes exactly 1 off   *)
(* the stock of id and exactly the price in cent (the amount returned) off *)
(* the balance; no buy_product step changes the stock without changing the *)
(* balance by the price, or the balance without the stock.                 *)
(***************************************************************************)
C2_BuyAtomic ==
  [][ op' = "buy_product" =>
        LET id == arg'[1]
        IN  /\ result'[1] # None =>
                 /\ id \in DOMAIN products
                 /\ products'[id].stock = products[id].stock - 1
                 /\ result'[1] = Some(IntTimes100(products[id].price))
                 /\ balance' = balance - IntTimes100(products[id].price)
            /\ (products' # products) <=> (result'[1] # None)
            /\ (balance' # balance) => (products' # products)
    ]_vars

\* a purchase has succeeded
C2_Witness ==
  /\ op = "buy_product"
  /\ result[1] # None
  /\ result[2].kind = "You retrieved"

(***************************************************************************)
(* C3: a failed buy_product(id) (unknown id, sold out or insufficient      *)
(* funds) leaves the balance and every product as they were and returns    *)
(* (None, error), the pair retrieve_product returns for the id and the     *)
(* balance.                                                                *)
(***************************************************************************)
C3_FailedBuyChangesNothing ==
  [][ (op' = "buy_product" /\ result'[1] = None) =>
        /\ balance' = balance
        /\ products' = products
        /\ result'[2].kind \in {KindUnknown, KindSoldOut, KindFunds}
        /\ result' = retrieve_product(products, arg'[1], balance).ret
    ]_vars

\* a purchase was refused for lack of funds while money was in the machine
C3_Witness ==
  /\ op = "buy_product"
  /\ result[1] = None
  /\ result[2].kind = KindFunds
  /\ balance > 0

(***************************************************************************)
(* C4: the balance is a non-negative number of cent in every reachable     *)
(* state, right after construction included.                               *)
(***************************************************************************)
C4_BalanceNonNegative == balance \in Nat

(***************************************************************************)
(* C5: no product's stock is ever negative, after any sequence of          *)
(* retrieve_product and buy_product calls on a catalog whose stocks start  *)
(* non-negative.                                                           *)
(***************************************************************************)
C5_StockNonNegative ==
  \A id \in DOMAIN products : products[id].stock \in Nat

\* the last unit of a product is gone and a further, funded retrieval of it
\* has been refused
C5_Witness ==
  /\ op \in {"retrieve_product", "buy_product"}
  /\ arg[1] = 2
  /\ 2 \in DOMAIN products
  /\ products[2].stock = 0
  /\ result[1] = None
  /\ result[2].kind = KindSoldOut

(***************************************************************************)
(* C6: return_coins leaves the balance at 0, whether it returned a list of *)
(* coins or None.                                                          *)
(***************************************************************************)
C6_ReturnCoinsZeroesBalance ==
  [][ op' = "return_coins" => balance' = 0 ]_vars

\* return_coins has failed to split a balance that was not 0
C6_Witness ==
  /\ op = "return_coins"
  /\ result = None
  /\ balance = 0

(***************************************************************************)
(* C7: whenever amount_to_coins(amount, S) returns a list of coins, every  *)
(* coin of it is in S and the coins sum to amount, for every integer       *)
(* amount and every set S of positive denominations.                       *)
(***************************************************************************)
C7_CoinsSumToAmount ==
  (call.made /\ ~call.prettify /\ call.ret # None) =>
     LET q == TheValue(call.ret)
     IN  /\ Range(q) \subseteq call.coin_set
         /\ SumSeq(q) = call.amount_ct

(***************************************************************************)
(* C8: for the denominations {5,10,20,50,100} and every amount >= 0 that   *)
(* some multiset of them sums to, amount_to_coins returns a list, and the  *)
(* list has the fewest coins of any such multiset.                         *)
(***************************************************************************)
C8_FewestCoins ==
  ( /\ call.made
    /\ call.coin_set = DEFAULT_COINS
    /\ call.amount_ct >= 0
    /\ FewestDefault[call.amount_ct + 1] # None ) =>
     /\ call.ret # None
     /\ Len(TheValue(call.ret)) = TheValue(FewestDefault[call.amount_ct + 1])

\* 130 ct were split into the three coins 100, 20, 10
C8_Witness ==
  /\ call.made
  /\ call.coin_set = DEFAULT_COINS
  /\ call.amount_ct = 130
  /\ call.ret = Some(<<100, 20, 10>>)

(***************************************************************************)
(* C9: for a coin set that contains the denomination 1, amount_to_coins    *)
(* never returns None, whatever the amount.                                *)
(***************************************************************************)
C9_NeverFailsWithUnitCoin ==
  (call.made /\ 1 \in call.coin_set) => call.ret # None

\* 7 was split with the coins {1, 4, 5}: only the coin 1 makes it possible
C9_Witness ==
  /\ call.made
  /\ call.coin_set = {1, 4, 5}
  /\ call.amount_ct = 7
  /\ call.ret = Some(<<5, 1, 1>>)

(***************************************************************************)
(* C10: amount_to_coins(0, S) returns the empty list, not None, for every  *)
(* non-empty set S.                                                        *)
(***************************************************************************)
C10_ZeroGivesEmptyList ==
  (call.made /\ call.amount_ct = 0 /\ call.coin_set # {}) =>
     call.ret = Some(<< >>)

\* the amount 0 was split with the coins of the machine
C10_Witness ==
  /\ call.made
  /\ call.amount_ct = 0
  /\ call.coin_set = DEFAULT_COINS
  /\ call.ret = Some(<< >>)

(***************************************************************************)
(* Helpers of the properties of insert_money.                              *)
(***************************************************************************)
\* a step that is a call of insert_money with a number
IsNumericInsert == op' = "insert_money" /\ Len(arg') = 1
\* a step that is a call of insert_money with something that is no number
IsNonNumericInsert == op' = "insert_money" /\ Len(arg') = 2

(***************************************************************************)
(* C11: insert_money with a negative amount or with 0 changes neither the  *)
(* balance nor the inventory, and returns the unchanged balance, not an    *)
(* error.                                                                  *)
(***************************************************************************)
C11_NonPositiveInsertIsNoOp ==
  [][ (IsNumericInsert /\ arg'[1] <= 0) =>
        /\ balance' = balance
        /\ products' = products
        /\ keys' = keys
        /\ result' = balance * 100
    ]_vars

\* a negative amount was inserted into a machine holding money
C11_Witness ==
  /\ op = "insert_money"
  /\ Len(arg) = 1
  /\ arg[1] < 0
  /\ balance > 0
  /\ result = balance * 100

(***************************************************************************)
(* C13: insert_money called on the model with an argument that is no       *)
(* number is silently ignored: the call ends without an error and the      *)
(* balance is as before.                                                   *)
(***************************************************************************)
C13_NonNumericInsertIgnored ==
  [][ IsNonNumericInsert =>
        /\ result' # Raised("TypeError")
        /\ balance' = balance
    ]_vars

(***************************************************************************)
(* The machine alone, fed amounts among which some lose a cent when they   *)
(* are converted to cent (0.29 EUR), next to amounts that do not.          *)
(***************************************************************************)
CentAmounts == {50, 99, 2498, 2900, 50000}   \* amount_eur

NextCents ==
  \/ \E a \in CentAmounts : InsertMoney(a) /\ UNCHANGED <<keys, aux>>
  \/ \E p \in BOOLEAN : ReturnCoins(p) /\ UNCHANGED <<keys, aux>>
  \/ \E id \in Ids : BuyProduct(id) /\ UNCHANGED <<keys, aux>>

SpecCents == Init /\ [][NextCents]_vars

\* the whole cents of a decimal amount: floor(amount * 100) of the number
\* the literal denotes
WholeCents(lit) == lit \div 100

(***************************************************************************)
(* C12: insert_money with a non-negative amount adds exactly               *)
(* floor(amount * 100) cent to the balance: fractions of a cent are cut    *)
(* off, nothing is rounded up, 0.2498 adds 24 and an amount below 0.01     *)
(* adds 0.                                                                 *)
(***************************************************************************)
C12_InsertAddsWholeCents ==
  [][ (IsNumericInsert /\ arg'[1] >= 0) =>
        balance' = balance + WholeCents(arg'[1])
    ]_vars

(***************************************************************************)
(* C17: buy_product(id) succeeds exactly when id is in the catalog, the    *)
(* stock of the product is > 0 and the balance is >= its price in cent; a  *)
(* balance equal to the price is enough and the purchase leaves it at 0.   *)
(***************************************************************************)
C17_BuySucceedsExactlyWhenFunded ==
  [][ op' = "buy_product" =>
        LET id == arg'[1]
        IN  /\ (result'[1] # None) <=>
                 /\ id \in DOMAIN products
                 /\ products[id].stock > 0
                 /\ balance >= WholeCents(products[id].price)
            /\ ( /\ id \in DOMAIN products
                 /\ products[id].stock > 0
                 /\ balance = WholeCents(products[id].price) ) =>
                 (result'[1] # None /\ balance' = 0)
    ]_vars

(***************************************************************************)
(* C15: sold out is permanent and overrides funds: once the stock of a     *)
(* product is 0 it stays 0, and every later retrieve_product / buy_product *)
(* of that id returns (None, "is sold out") whatever amount is offered or  *)
(* held.  Holding in every step, it holds in every continuation.           *)
(***************************************************************************)
C15_SoldOutIsPermanent ==
  [][ \A id \in DOMAIN products :
        products[id].stock = 0 =>
          /\ id \in DOMAIN products'
          /\ products'[id].stock = 0
          /\ (IsRetrieveStep /\ arg'[1] = id) =>
               result' = <<None, MsgSoldOut(id, products[id].name)>>
    ]_vars

\* the only Pinot Noir is gone and a purchase of it was refused as sold out
\* while the machine held more than its price
C15_Witness ==
  /\ op = "buy_product"
  /\ arg[1] = 1
  /\ 3 \in DOMAIN products
  /\ products[1].stock = 0
  /\ balance >= 450
  /\ result = <<None, MsgSoldOut(1, "Pinot Noir")>>

(***************************************************************************)
(* C18: the catalog changes only by a successful retrieval taking one unit *)
(* off the stock: the ids, names and prices never change, no stock ever    *)
(* grows, insert_money, return_coins, list_products and every failed       *)
(* retrieval leave all products as they are, and a successful retrieval of *)
(* id leaves every other product as it is.                                 *)
(***************************************************************************)
C18_CatalogOnlyLosesStock ==
  [][ /\ DOMAIN products' = DOMAIN products
      /\ keys' = keys
      /\ \A id \in DOMAIN products :
           /\ products'[id].id = products[id].id
           /\ products'[id].name = products[id].name
           /\ products'[id].price = products[id].price
           /\ products'[id].stock <= products[id].stock
      /\ op' \in {"insert_money", "return_coins", "list_products"} =>
           products' = products
      /\ (IsRetrieveStep /\ result'[1] = None) => products' = products
      /\ (IsRetrieveStep /\ result'[1] # None) =>
           /\ products'[arg'[1]].stock = products[arg'[1]].stock - 1
           /\ \A other \in DOMAIN products \ {arg'[1]} :
                products'[other] = products[other]
    ]_vars

\* the list shows the stock left by an earlier purchase: no Pinot Noir, one
\* Red Bull + Vodka, in the order of the catalog
C18_Witness ==
  /\ op = "list_products"
  /\ Len(result.rows) = 3
  /\ result.rows[1] = [id |-> 1, name |-> "Pinot Noir", price |-> 45000,
                       stock |-> 0]
  /\ result.rows[2].stock = 1
  /\ result.rows[3].stock = 0

(***************************************************************************)
(* C20: with the denominations {5,10,20,50,100}, return_coins(False)       *)
(* returns a list of coins summing to the balance held before the call     *)
(* exactly when that balance is a multiple of 5, and None otherwise.       *)
(***************************************************************************)
C20_CoinsWorthTheBalance ==
  [][ (op' = "return_coins" /\ arg'[1] = FALSE) =>
        IF balance % 5 = 0
          THEN /\ result' # None
               /\ SumSeq(TheValue(result')) = balance
          ELSE result' = None
    ]_vars

(***************************************************************************)
(* The audited run: a machine that starts at balance 0, with a ledger of   *)
(* the money credited by insert_money, paid in buy_product and cleared by  *)
(* return_coins, and with the position reached in the end-to-end scenario  *)
(*   insert_money(5.00); buy_product(1); return_coins(False);              *)
(*   buy_product(1)                                                        *)
(* as long as the run consists of exactly these calls from the start.      *)
(***************************************************************************)
Scenario ==
  << [op |-> "insert_money", arg |-> <<50000>>],
     [op |-> "buy_product",  arg |-> <<1>>],
     [op |-> "return_coins", arg |-> <<FALSE>>],
     [op |-> "buy_product",  arg |-> <<1>>] >>

\* the run has left the scenario
OffScenario == Len(Scenario) + 1

Follow ==
  step' = IF /\ step < Len(Scenario)
             /\ op' = Scenario[step + 1].op
             /\ arg' = Scenario[step + 1].arg
            THEN step + 1
            ELSE OffScenario

AuditAmounts   == {-20000, 2498, 50000}     \* amount_eur
AuditDatabases == {ScenarioDatabase, TestDatabase}

InitAudit ==
  /\ \E pl \in AuditDatabases :
       /\ products = InventoryInit(pl)
       /\ keys = KeyOrder(pl)
  /\ AuxInit
  /\ balance = 0
  /\ coins = SortedReverse(DEFAULT_COINS)
  /\ op = "init"
  /\ arg = << >>
  /\ result = None
  /\ call = NoCall

AuditInsert(a) ==
  /\ ledger.credited + InsertedCents(a) <= MaxCredited
  /\ InsertMoney(a)
  /\ ledger' = [ledger EXCEPT !.credited = @ + InsertedCents(a)]
  /\ Follow
  /\ UNCHANGED <<keys, heap, invs>>

AuditReturn(p) ==
  /\ ReturnCoins(p)
  /\ ledger' = [ledger EXCEPT !.cleared = @ + balance]
  /\ Follow
  /\ UNCHANGED <<keys, heap, invs>>

AuditBuy(id) ==
  /\ BuyProduct(id)
  /\ ledger' = [ledger EXCEPT
       !.paid = @ + (IF result'[1] # None THEN TheValue(result'[1]) ELSE 0)]
  /\ Follow
  /\ UNCHANGED <<keys, heap, invs>>

NextAudit ==
  \/ \E a \in AuditAmounts : AuditInsert(a)
  \/ \E p \in BOOLEAN : AuditReturn(p)
  \/ \E id \in Ids : AuditBuy(id)

SpecAudit == InitAudit /\ [][NextAudit]_vars

(***************************************************************************)
(* C14: from balance 0 and the catalog [{id 1, price 4.50, stock 1}], the  *)
(* calls insert_money(5.00); buy_product(1); return_coins(False);          *)
(* buy_product(1) give in this order: balance 500; (450, success) and      *)
(* balance 50; [50] and balance 0; (None, sold out).                       *)
(***************************************************************************)
C14_EndToEnd ==
  /\ step = 1 => balance = 500
  /\ step = 2 =>
       /\ result = <<Some(450), MsgRetrieved("Pinot Noir", 45000)>>
       /\ balance = 50
  /\ step = 3 =>
       /\ result = Some(<<50>>)
       /\ balance = 0
  /\ step = 4 => result = <<None, MsgSoldOut(1, "Pinot Noir")>>

\* the scenario has been run to its end on the one-product catalog
C14_Witness ==
  /\ step = 4
  /\ keys = <<1>>
  /\ op = "buy_product"
  /\ result[1] = None
  /\ balance = 0
  /\ products[1].stock = 0

(***************************************************************************)
(* C19: money is conserved on a machine that starts at balance 0: in every *)
(* reachable state the cent credited by insert_money equal the balance     *)
(* plus the prices paid in successful buy_product calls plus the balances  *)
(* cleared by return_coins calls.                                          *)
(***************************************************************************)
C19_MoneyConserved ==
  ledger.credited = balance + ledger.paid + ledger.cleared

\* money was inserted, spent and returned, and some is still in the machine
C19_Witness ==
  /\ ledger.credited > 0
  /\ ledger.paid > 0
  /\ ledger.cleared > 0
  /\ balance > 0

(***************************************************************************)
(* Two inventories built side by side.  A product list is a Python list of *)
(* dicts; Inventory.__init__ keeps the very dicts of the list it is given  *)
(* (p for p in pl), and retrieve_product changes the dict in place.  The   *)
(* heap holds the dicts by address <<list, position>>; an inventory maps   *)
(* each id to the address of its dict.                                     *)
(***************************************************************************)
DATABASE ==
  << [id |-> 1, name |-> "Water",     price |->  5000, stock |-> 10],
     [id |-> 2, name |-> "Coke",      price |-> 10000, stock |-> 10],
     [id |-> 3, name |-> "Diet Coke", price |-> 12000, stock |-> 10],
     [id |-> 4, name |-> "Iced Tea",  price |-> 10000, stock |-> 10],
     [id |-> 5, name |-> "Chocolate", price |-> 15000, stock |-> 10],
     [id |-> 6, name |-> "Candy",     price |->  9500, stock |-> 10],
     [id |-> 7, name |-> "Chips",     price |-> 25000, stock |-> 10],
     [id |-> 8, name |-> "Espresso",  price |-> 12000, stock |-> 10],
     [id |-> 9, name |-> "Coffee",    price |-> 15000, stock |-> 10] >>

\* the dicts of the list object called nm, whose content is pl
DictsOf(nm, pl) == [a \in { <<nm, k>> : k \in DOMAIN pl } |-> pl[a[2]]]

\* Inventory(pl) for that list object: id -> address of the dict kept
InventoryOn(nm, pl) ==
  [i \in { pl[k].id : k \in DOMAIN pl } |->
     <<nm, CHOOSE k \in DOMAIN pl :
             /\ pl[k].id = i
             /\ \A j \in DOMAIN pl : pl[j].id = i => j <= k>>]

\* the products as seen through inventory n
View(n) == [i \in DOMAIN invs[n] |-> heap[invs[n][i]]]

SharedIds     == {1, 2, 10}       \* 10 is in no catalog
SharedAmounts == {40, 500}        \* amount_ct

InitShared ==
  /\ products = InventoryInit(TestDatabase)
  /\ keys = KeyOrder(TestDatabase)
  /\ balance = 0
  /\ coins = SortedReverse(DEFAULT_COINS)
  /\ op = "init"
  /\ arg = << >>
  /\ result = None
  /\ call = NoCall
  /\ step = 0
  /\ ledger = NoLedger
  /\ \/ \* Inventory() and Inventory(): both on the default list
        /\ heap = DictsOf("DATABASE", DATABASE)
        /\ invs = << InventoryOn("DATABASE", DATABASE),
                     InventoryOn("DATABASE", DATABASE) >>
     \/ \* Inventory(pl) and Inventory(pl) on one list of the caller
        /\ heap = DictsOf("pl", TestDatabase)
        /\ invs = << InventoryOn("pl", TestDatabase),
                     InventoryOn("pl", TestDatabase) >>
     \/ \* Inventory(pl1) and Inventory(pl2) on two lists of equal content
        /\ heap = [a \in DOMAIN DictsOf("pl1", TestDatabase)
                         \cup DOMAIN DictsOf("pl2", TestDatabase) |->
                     TestDatabase[a[2]]]
        /\ invs = << InventoryOn("pl1", TestDatabase),
                     InventoryOn("pl2", TestDatabase) >>

\* retrieve_product on inventory n: the dicts it keeps are changed in place
RetrieveOn(n, id, amount_ct) ==
  LET r    == retrieve_product(View(n), id, amount_ct)
      mine == { invs[n][i] : i \in DOMAIN invs[n] }
  IN  /\ heap' = [a \in DOMAIN heap |->
                    IF a \in mine
                      THEN r.prods[CHOOSE i \in DOMAIN invs[n] : invs[n][i] = a]
                      ELSE heap[a]]
      /\ result' = r.ret
      /\ op' = "retrieve_product"
      /\ arg' = <<id, amount_ct, n>>
      /\ UNCHANGED <<products, balance, coins, call, keys, step, ledger, invs>>

NextShared ==
  \E n \in {1, 2}, id \in SharedIds, a \in SharedAmounts : RetrieveOn(n, id, a)

SpecShared == InitShared /\ [][NextShared]_vars

(***************************************************************************)
(* C16: an Inventory owns its products exclusively: a successful           *)
(* retrieve_product on one Inventory never changes the stock seen through  *)
(* another Inventory, also when both were constructed with the default     *)
(* catalog or from the same product list.                                  *)
(***************************************************************************)
C16_InventoriesDoNotShare ==
  [][ \A n \in {1, 2} :
        (op' = "retrieve_product" /\ arg'[3] = n /\ result'[1] # None) =>
          \A m \in {1, 2} \ {n} :
            \A i \in DOMAIN invs[m] :
              heap'[invs[m][i]].stock = heap[invs[m][i]].stock
    ]_vars

====
